---- MODULE Spec2Model ----
(***************************************************************************)
(* A model of the two programs of the repository:                          *)
(*                                                                         *)
(*   new_manual_update.sh   a bash script that runs eight git commands,    *)
(*                          each as `cd $temp_path && /usr/bin/git ...`    *)
(*   linear-regression-gluon.ipynb                                         *)
(*                          a notebook that trains a one-layer network     *)
(*                          with the Gluon data loader and trainer         *)
(*                                                                         *)
(* The script's state is the shell's (its position, its two variables, its *)
(* working directory, $?) and the repository git acts on.  git and the     *)
(* Gluon library are the programs' environment; they are modelled by what  *)
(* their documented behaviour does to the state the programs can observe.  *)
(***************************************************************************)
EXTENDS Integers, Sequences, FiniteSets, TLC

VARIABLES
    \* ---- new_manual_update.sh
    sh_pc,        \* the line the shell executes next
    clock,        \* the host's clock, read by date
    cwd,          \* the shell's working directory
    temp_date,    \* line 2
    temp_path,    \* line 3
    status,       \* $?: the exit status of the last line executed
    exit_code,    \* the script's exit status, once it has ended
    other_dir,    \* whether the directory a split temp_path names exists
    repo,         \* the git repository in the directory the script starts in
    issued,       \* history: the git commands the shell has run, in order
    outcome,      \* history: per line executed, how it ended
    start,        \* history: the repository when the script started
    \* ---- linear-regression-gluon.ipynb
    lit,          \* the literals of the notebook: see Literals
    nb_pc,        \* the statement the kernel executes next
    features,     \* cell 1: the feature rows
    labels,       \* cell 1: the labels
    batch_size,   \* cell 2
    data_iter,    \* cell 2: the DataLoader
    it,           \* the iterator the running (or last) for loop drew from data_iter
    X,            \* the feature rows of the current mini-batch
    y,            \* the labels of the current mini-batch
    net,          \* cells 4-6: the Sequential container and its parameters
    loss,         \* cell 7
    trainer,      \* cell 8
    num_epochs,   \* cell 9
    epoch,        \* cell 9: the loop variable
    l,            \* cell 9: the loss last computed
    grad,         \* the state of the parameters' gradients
    w,            \* cell 10
    b,            \* cell 10
    printed,      \* what the cells have printed
    calls,        \* history: number of calls of net(X) on a mini-batch, of
                  \*          l.backward() and of trainer.step
    stages,       \* history: the library stages reached, in order
    delivered     \* history: the examples the running for loop has delivered

shvars == <<sh_pc, clock, cwd, temp_date, temp_path, status, exit_code,
            other_dir, repo, issued, outcome, start>>

nbvars == <<lit, nb_pc, features, labels, batch_size, data_iter, it, X, y, net,
            loss, trainer, num_epochs, epoch, l, grad, w, b, printed, calls,
            stages, delivered>>

vars == <<shvars, nbvars>>

(***************************************************************************)
(* Bounds of the model.                                                    *)
(***************************************************************************)
MaxClock == 1
\* The scaled-down notebook: at most MaxExamples examples, mini-batches of at
\* most MaxBatch, at most MaxEpochs epochs.
MaxExamples == 3
MaxBatch == 3
MaxEpochs == 2
\* At the notebook's own size the sampler draws one of MaxShuffles orders.
MaxShuffles == 2

\* A shell variable that is not set expands to the empty string.
Unset == <<>>

--------------------------------------------------------------------------
(***************************************************************************)
(* new_manual_update.sh                                                    *)
(***************************************************************************)

\* The lines of the script that hold a command, in order, and the line after
\* the last one.
ScriptLines == <<2, 3, 8, 9, 10, 13, 14, 15, 16, 17>>
Done == 18

\* The git command of each line (lines 8-17).
CommandAtSwapped(line) ==
    CASE line = 8  -> <<"branch", "tmp">>
      [] line = 9  -> <<"checkout", "tmp">>
      [] line = 10 -> <<"add", ".", "--all">>
      [] line = 13 -> <<"commit", "-m", <<"code on", temp_date>>>>
      [] line = 14 -> <<"merge", "tmp">>
      [] line = 15 -> <<"checkout", "master">>
      [] line = 16 -> <<"push", "origin", "master">>
      [] line = 17 -> <<"branch", "-d", "tmp">>

CommandAt(line) ==
    CASE line = 8  -> <<"branch", "tmp">>
      [] line = 9  -> <<"checkout", "tmp">>
      [] line = 10 -> <<"add", ".", "--all">>
      [] line = 13 -> <<"commit", "-m", <<"code on", temp_date>>>>
      [] line = 14 -> <<"checkout", "master">>
      [] line = 15 -> <<"merge", "tmp">>
      [] line = 16 -> <<"push", "origin", "master">>
      [] line = 17 -> <<"branch", "-d", "tmp">>

\* bash runs a script line after line: there is no `set -e`, no `exit`, no
\* test of $? and no loop, so the line after `line` is the next one of the
\* file whatever the status of `line` was.
NextLineErrExit(line, st) ==
    IF st # 0 THEN Done
    ELSE IF line = 17 THEN Done
    ELSE CHOOSE ln \in {ScriptLines[i] : i \in 1..Len(ScriptLines)} :
            /\ ln > line
            /\ \A m \in {ScriptLines[i] : i \in 1..Len(ScriptLines)} :
                  m > line => ln <= m

NextLine(line, st) ==
    IF line = 17 THEN Done
    ELSE CHOOSE ln \in {ScriptLines[i] : i \in 1..Len(ScriptLines)} :
            /\ ln > line
            /\ \A m \in {ScriptLines[i] : i \in 1..Len(ScriptLines)} :
                  m > line => ln <= m

(***************************************************************************)
(* `cd $temp_path`: the expansion is not quoted, so bash splits it into    *)
(* fields at blanks.  A path is a sequence of characters; "d" stands for   *)
(* any character that is not a blank.                                      *)
(***************************************************************************)
PathChars == {"d", " "}

\* The directories the script may be started in (pwd prints an absolute path;
\* its leading "/" is left out): a name without blanks, a name of two words,
\* and a name that ends with a blank.
Paths == { <<"d">>, <<"d", " ", "d">>, <<"d", " ">> }

\* Word splitting: the maximal runs of non-blank characters of p.
RECURSIVE Fields(_)
Fields(p) ==
    IF p = <<>> THEN <<>>
    ELSE IF Head(p) = " " THEN Fields(Tail(p))
    ELSE LET rest == Fields(Tail(p))
         IN IF Len(p) > 1 /\ p[2] # " "
            THEN <<<<Head(p)>> \o Head(rest)>> \o Tail(rest)
            ELSE <<<<Head(p)>>>> \o rest

\* What `cd $temp_path` does (bash 4.4 and later), where other says whether
\* the directory named by the first field exists when that is not temp_path:
\*   "ok"         one field, the path itself: the shell changes to temp_path
\*   "elsewhere"  one field that is not the path, naming a directory that
\*                exists: the shell changes to that directory
\*   "fail"       no such directory, or more than one field (cd: too many
\*                arguments)
Cd(path, other) ==
    LET f == Fields(path)
    IN IF Len(f) = 1 /\ f[1] = path THEN "ok"
       ELSE IF Len(f) = 1 /\ other THEN "elsewhere"
       ELSE "fail"

(***************************************************************************)
(* The repository.  A commit is its index in repo.commits; a branch maps   *)
(* to a commit or to NoCommit.  staged: the index differs from HEAD;       *)
(* dirty: the working tree holds changes or new files that are not staged. *)
(***************************************************************************)
NoCommit == 0
Branches == {"master", "tmp"}

RECURSIVE Ancestors(_, _)
\* The commits reachable from commit c (c included) in the commit graph cs.
Ancestors(cs, c) ==
    IF c = NoCommit THEN {}
    ELSE {c} \cup UNION {Ancestors(cs, p) : p \in cs[c].parents}

IsAncestor(cs, a, br) == a \in Ancestors(cs, br)

HeadCommit(r) == r.branches[r.head]

\* What the environment of one git command decides:
\*   ok     nothing outside the modelled state makes it fail (a lock file, a
\*          hook, permissions, the network)
\*   clash  the files changed on both sides overlap: a true merge conflicts, a
\*          checkout that would overwrite local changes is refused
Envs == [ok : BOOLEAN, clash : BOOLEAN]

Failed(r) == [ok |-> FALSE, repo |-> r]
Succeeded(r) == [ok |-> TRUE, repo |-> r]

\* git branch tmp: a new branch at HEAD's commit.
GitBranch(r, name, env) ==
    IF ~env.ok \/ r.branches[name] # NoCommit \/ HeadCommit(r) = NoCommit
    THEN Failed(r)
    ELSE Succeeded([r EXCEPT !.branches[name] = HeadCommit(r)])

\* git checkout <branch>: HEAD moves to the branch; local changes are carried
\* over unless the switch would overwrite them.
GitCheckout(r, name, env) ==
    IF ~env.ok \/ r.branches[name] = NoCommit THEN Failed(r)
    ELSE IF /\ r.branches[name] # HeadCommit(r)
            /\ (r.staged \/ r.dirty)
            /\ env.clash
    THEN Failed(r)
    ELSE Succeeded([r EXCEPT !.head = name])

\* git add . --all: every change of the working tree is staged.
GitAddAll(r, env) ==
    IF ~env.ok THEN Failed(r)
    ELSE Succeeded([r EXCEPT !.staged = r.staged \/ r.dirty, !.dirty = FALSE])

\* git commit -m msg: a new commit on the current branch, or "nothing to
\* commit" (status 1) when nothing is staged.
GitCommit(r, msg, env) ==
    IF ~env.ok \/ ~r.staged THEN Failed(r)
    ELSE LET c == Len(r.commits) + 1
             parents == IF HeadCommit(r) = NoCommit THEN {} ELSE {HeadCommit(r)}
         IN Succeeded([r EXCEPT
                !.commits = Append(@, [parents |-> parents, msg |-> msg]),
                !.branches[r.head] = c,
                !.staged = FALSE])

\* How git merge <name> would proceed: "none" (no such branch, or no commit
\* to merge into), "uptodate" (the branch is already contained in HEAD),
\* "ff" (HEAD is contained in the branch: the current branch is moved to it)
\* or "true" (the histories diverged: a three-way merge).
MergeKind(r, name) ==
    LET theirs == r.branches[name]
        ours == HeadCommit(r)
    IN IF theirs = NoCommit \/ ours = NoCommit THEN "none"
       ELSE IF IsAncestor(r.commits, theirs, ours) THEN "uptodate"
       ELSE IF IsAncestor(r.commits, ours, theirs) THEN "ff"
       ELSE "true"

\* git merge tmp.  A conflicting merge stops with status 1, the conflicts
\* left in the working tree and the index.
GitMerge(r, name, env) ==
    LET kind == MergeKind(r, name)
        theirs == r.branches[name]
    IN IF ~env.ok \/ kind = "none" THEN Failed(r)
       ELSE IF kind = "uptodate" THEN Succeeded(r)
       ELSE IF kind = "ff"
       THEN IF (r.staged \/ r.dirty) /\ env.clash THEN Failed(r)
            ELSE Succeeded([r EXCEPT !.branches[r.head] = theirs])
       ELSE IF r.staged THEN Failed(r)
       ELSE IF env.clash
       THEN [ok |-> FALSE,
             repo |-> [r EXCEPT !.staged = TRUE, !.dirty = TRUE,
                                !.conflict = TRUE]]
       ELSE LET c == Len(r.commits) + 1
            IN Succeeded([r EXCEPT
                   !.commits = Append(@, [parents |-> {HeadCommit(r), theirs},
                                          msg |-> <<"Merge branch", name>>]),
                   !.branches[r.head] = c])

\* git push origin master: origin's master is moved to the local master when
\* that is a fast-forward; otherwise the push is rejected.
GitPush(r, name, env) ==
    IF ~env.ok \/ r.branches[name] = NoCommit THEN Failed(r)
    ELSE IF r.origin # NoCommit
            /\ ~IsAncestor(r.commits, r.origin, r.branches[name])
    THEN Failed(r)
    ELSE Succeeded([r EXCEPT !.origin = r.branches[name]])

\* git branch -d tmp: refused for the branch that is checked out and for one
\* that is not merged into HEAD.
GitBranchDelete(r, name, env) ==
    IF \/ ~env.ok
       \/ r.branches[name] = NoCommit
       \/ r.head = name
       \/ ~IsAncestor(r.commits, r.branches[name], HeadCommit(r))
    THEN Failed(r)
    ELSE Succeeded([r EXCEPT !.branches[name] = NoCommit])


(***************************************************************************)
(* The script's steps: one action per line.                                *)
(***************************************************************************)
Running == "running"

\* The repositories the script may be started in.  Three commits exist: 1 is
\* the root, 2 and 3 are two children of 1 (two histories that diverged).
\* master is unborn, at 1 or at 2; tmp does not exist, or is at 1 or at 3;
\* origin's master is at 1 or at 3; either branch is checked out; the working
\* tree is clean or holds changes, none of them staged.
InitCommits ==
    << [parents |-> {}, msg |-> <<"root">>],
       [parents |-> {1}, msg |-> <<"second">>],
       [parents |-> {1}, msg |-> <<"third">>] >>

InitRepos ==
    { [commits |-> InitCommits,
       branches |-> [br \in Branches |-> IF br = "master" THEN m ELSE t],
       head |-> h, staged |-> FALSE, dirty |-> d, conflict |-> FALSE,
       origin |-> o] :
         m \in {NoCommit, 1, 2}, t \in {NoCommit, 1, 3},
         h \in Branches, d \in BOOLEAN,
         o \in {1, 3} }

InitScript ==
    /\ sh_pc = 2
    /\ clock = 0
    /\ cwd \in Paths
    /\ other_dir \in BOOLEAN
    /\ temp_date = Unset
    /\ temp_path = Unset
    /\ status = 0
    /\ exit_code = Running
    /\ repo \in {r \in InitRepos : r.head = "tmp" => r.branches["tmp"] # NoCommit}
    /\ issued = <<>>
    /\ outcome = [ln \in {} |-> ""]
    /\ start = repo

\* The end of a line: $? is its status, the shell goes on to the next line,
\* and the script's exit status is that of the last line it ran.
EndLine(line, st, how) ==
    /\ status' = st
    /\ sh_pc' = NextLine(line, st)
    /\ exit_code' = IF NextLine(line, st) = Done THEN st ELSE Running
    /\ outcome' = [ln \in DOMAIN outcome \cup {line} |->
                      IF ln = line THEN how ELSE outcome[ln]]
    /\ UNCHANGED nbvars

\* Line 2: temp_date=$(date)
Line2_Date ==
    /\ sh_pc = 2
    /\ temp_date' = <<clock>>
    /\ EndLine(2, 0, "ok")
    /\ UNCHANGED <<clock, cwd, temp_path, other_dir, repo, issued, start>>

\* Line 3: temp_path=$(pwd)
Line3_Pwd ==
    /\ sh_pc = 3
    /\ temp_path' = cwd
    /\ EndLine(3, 0, "ok")
    /\ UNCHANGED <<clock, cwd, temp_date, other_dir, repo, issued, start>>

\* Lines 8-17: cd $temp_path && /usr/bin/git <command>.  git runs only when
\* cd succeeded; git[env] is what the command does to the repository.  In
\* another directory git does not act on this repository, and its status is
\* whatever it finds there.
CdAndGit(line, git) ==
    /\ sh_pc = line
    /\ LET cd == Cd(temp_path, other_dir)
       IN CASE cd = "fail" ->
                 /\ EndLine(line, 1, "cd failed")
                 /\ UNCHANGED <<cwd, repo, issued>>
            [] cd = "elsewhere" ->
                 /\ cwd' = Head(Fields(temp_path))
                 /\ issued' = Append(issued, CommandAt(line))
                 /\ \E st \in {0, 1} :
                       EndLine(line, st, IF st = 0 THEN "ok" ELSE "git failed")
                 /\ UNCHANGED repo
            [] cd = "ok" ->
                 /\ cwd' = temp_path
                 /\ issued' = Append(issued, CommandAt(line))
                 /\ \E env \in Envs :
                       LET res == git[env]
                       IN /\ repo' = res.repo
                          /\ EndLine(line, IF res.ok THEN 0 ELSE 1,
                                     IF res.ok THEN "ok" ELSE "git failed")
    /\ UNCHANGED <<clock, temp_date, temp_path, other_dir, start>>

Line8_BranchTmp ==
    CdAndGit(8, [env \in Envs |-> GitBranch(repo, "tmp", env)])

Line9_CheckoutTmp ==
    CdAndGit(9, [env \in Envs |-> GitCheckout(repo, "tmp", env)])

Line10_AddAll ==
    CdAndGit(10, [env \in Envs |-> GitAddAll(repo, env)])

Line13_Commit ==
    CdAndGit(13, [env \in Envs |-> GitCommit(repo, <<"code on", temp_date>>, env)])

Line14_CheckoutMaster ==
    CdAndGit(14, [env \in Envs |-> GitCheckout(repo, "master", env)])

Line15_MergeTmp ==
    CdAndGit(15, [env \in Envs |-> GitMerge(repo, "tmp", env)])

Line16_Push ==
    CdAndGit(16, [env \in Envs |-> GitPush(repo, "master", env)])

Line17_BranchDelete ==
    CdAndGit(17, [env \in Envs |-> GitBranchDelete(repo, "tmp", env)])

\* The host's clock advances while the script runs.
Tick ==
    /\ sh_pc # Done
    /\ clock < MaxClock
    /\ clock' = clock + 1
    /\ UNCHANGED <<sh_pc, cwd, temp_date, temp_path, status, exit_code, other_dir,
                   repo, issued, outcome, start>>
    /\ UNCHANGED nbvars

ScriptStep ==
    \/ Line2_Date
    \/ Line3_Pwd
    \/ Line8_BranchTmp
    \/ Line9_CheckoutTmp
    \/ Line10_AddAll
    \/ Line13_Commit
    \/ Line14_CheckoutMaster
    \/ Line15_MergeTmp
    \/ Line16_Push
    \/ Line17_BranchDelete

NextScript == ScriptStep \/ Tick

--------------------------------------------------------------------------
(***************************************************************************)
(* linear-regression-gluon.ipynb                                           *)
(***************************************************************************)

\* The literals of the notebook: the number of examples generated (cell 1),
\* the mini-batch size (cell 2) and the number of epochs (cell 9).
NumExamples == 1000
BatchSize == 10
NumEpochs == 3
Literals == [n |-> NumExamples, batch |-> BatchSize, epochs |-> NumEpochs]

\* The same notebook with smaller literals.
ScaledLiterals ==
    [n : 1..MaxExamples, batch : 1..MaxBatch, epochs : 1..MaxEpochs]

\* A name the notebook has not bound yet.
Undefined == "undefined"

Min(a, c) == IF a < c THEN a ELSE c

\* d2l.synthetic_data(true_w, true_b, n): n feature rows and their n labels.
\* Row i and label i are both written i: a mini-batch keeps rows and labels
\* paired when its X and y are the same sequence.
SyntheticData(n) == [features |-> [i \in 1..n |-> i], labels |-> [i \in 1..n |-> i]]

\* gluon.data.ArrayDataset(*data_arrays): item i is the tuple of the i-th
\* element of every array.
ArrayDataset(arrays) ==
    [i \in 1..Len(arrays[1]) |-> [k \in 1..Len(arrays) |-> arrays[k][i]]]

\* load_array(data_arrays, batch_size, is_train=True)
LoadArray(data_arrays, bs, is_train) ==
    [dataset |-> ArrayDataset(data_arrays), batch_size |-> bs,
     shuffle |-> is_train]

\* All orders of 1..n.
AllOrders(n) ==
    {p \in [1..n -> 1..n] : \A i \in 1..n : \A j \in 1..n : p[i] = p[j] => i = j}

\* 1..n turned by k places.
Rotation(n, k) == [i \in 1..n |-> ((i - 1 + k) % n) + 1]

\* The orders the loader's sampler may draw for one pass: 1, 2, ..., n without
\* shuffle; with shuffle any permutation of 1..n.  Beyond MaxExamples the
\* permutations are too many to list, and the model draws among MaxShuffles
\* of them, which cut the data into different mini-batches.
SamplerOrders(loader) ==
    LET n == Len(loader.dataset)
    IN IF ~loader.shuffle THEN {[i \in 1..n |-> i]}
       ELSE IF n <= MaxExamples THEN AllOrders(n)
       ELSE {Rotation(n, 7 * j) : j \in 0..(MaxShuffles - 1)}

\* iter(data_iter): every for loop over the DataLoader draws a new order and
\* starts at its first mini-batch, whatever an earlier loop left behind.
NoIter == [order |-> <<>>, pos |-> -1]

IterResume(loader, old, order) ==
    IF old.pos >= 0 THEN old ELSE [order |-> order, pos |-> 0]

Iter(loader, old, order) == [order |-> order, pos |-> 0]

\* The mini-batches of a pass: batch_size indices at a time, a shorter last
\* one being kept (last_batch = 'keep').
HasNext(loader, i) == i.pos < Len(i.order)

NextIndicesOneMore(loader, i) ==
    SubSeq(i.order, i.pos + 1, Min(i.pos + loader.batch_size + 1, Len(i.order)))

NextIndices(loader, i) ==
    SubSeq(i.order, i.pos + 1, Min(i.pos + loader.batch_size, Len(i.order)))

\* The mini-batch of the indices idx: component k of every item, stacked.
Batchify(loader, idx, k) == [j \in 1..Len(idx) |-> loader.dataset[idx[j]][k]]

(***************************************************************************)
(* The model: a Sequential container, its parameters and the trainer.      *)
(* net.params is the state of the parameters of the layers:                *)
(*   "undefined"  net is not bound        "none"      no layer             *)
(*   "declared"   a layer, no initialize  "deferred"  initialize called,   *)
(*   "ready"      allocated and set                   shapes not yet known *)
(***************************************************************************)
NoNet == [layers |-> 0, params |-> Undefined]

\* nn.Sequential()
Sequential == [layers |-> 0, params |-> "none"]

\* net.add(nn.Dense(1)): the layer's input size is not given, so its
\* parameters have no shape yet.
Add(n) == [layers |-> n.layers + 1, params |-> "declared"]

\* net.initialize(init.Normal(sigma=0.01)): the shapes being unknown, the
\* initialization is deferred to the first forward pass.
Initialize(n) ==
    IF n.params = "declared" THEN [n EXCEPT !.params = "deferred"] ELSE n

\* net(X): whether the forward pass can be made, and the net after it (the
\* first pass gives the parameters their shapes and finishes initialize).
CanForward(n) == n.params \in {"none", "deferred", "ready"}

Forward(n) ==
    IF n.params = "deferred" THEN [n EXCEPT !.params = "ready"] ELSE n

\* Whether a parameter of the net can be read or updated: before the first
\* forward pass Gluon raises DeferredInitializationError.
CanAccessParams(n) == n.params = "ready"

\* trainer: rescale is the batch size given to the last step, on the
\* mini-batch whose gradients that step applied.  l: the loss, the rows it
\* was computed on, and whether autograd recorded it.  grad: "none", "fresh"
\* (set by a backward pass, not yet applied) or "stale", and the rows of the
\* loss it is the gradient of.
NoTrainer == [optimizer |-> Undefined, params |-> 0, rescale |-> 0, on |-> <<>>]
NoLoss == [of |-> Undefined, on |-> <<>>, recorded |-> FALSE]
NoGrad == [state |-> "none", on |-> <<>>]
NoLoader == [dataset |-> <<>>, batch_size |-> 0, shuffle |-> FALSE]

(***************************************************************************)
(* The statements of the notebook, named by their line in the .ipynb file. *)
(* Program is the top-level statements in the order of the cells; a for    *)
(* loop is one statement, left for the next when its iterator is exhausted *)
(* (or by break).                                                          *)
(***************************************************************************)
ProgramTrainerFirst ==
    <<"49", "89", "90", "134", "174", "203", "324", "250", "291", "388", "389",
      "431", "433", "end">>

ProgramInspectFirst ==
    <<"49", "89", "90", "134", "174", "203", "250", "291", "324", "388", "431",
      "433", "389", "end">>

Program ==
    <<"49", "89", "90", "134", "174", "203", "250", "291", "324", "388", "389",
      "431", "433", "end">>

After(stmt) ==
    LET i == CHOOSE k \in 1..Len(Program) : Program[k] = stmt
    IN Program[i + 1]

\* The statements of the body of the inner loop of cell 9, in order; after
\* the last one the loop asks its iterator for the next mini-batch.
LoopBodyStepFirst == <<"392", "394", "393">>

LoopBody == <<"392", "393", "394">>

AfterInBody(stmt) ==
    LET i == CHOOSE k \in 1..Len(LoopBody) : LoopBody[k] = stmt
    IN IF i < Len(LoopBody) THEN LoopBody[i + 1] ELSE "390n"

\* range(lo, hi)

Range(lo, hi) == [i \in 1..(hi - lo) |-> lo + i - 1]

\* A stage is logged when it is entered.
Stage(name) ==
    IF stages # <<>> /\ stages[Len(stages)] = name THEN stages
    ELSE Append(stages, name)

\* The kernel goes on to statement stmt; nothing else is running.
Goto(stmt) == nb_pc' = stmt /\ UNCHANGED shvars

\* An exception of the library ends the run of the cells.
Raise == Goto("error")

InitNotebookAt(literals) ==
    /\ lit \in literals
    /\ nb_pc = "49"
    /\ features = <<>>
    /\ labels = <<>>
    /\ batch_size = 0
    /\ data_iter = NoLoader
    /\ it = NoIter
    /\ X = <<>>
    /\ y = <<>>
    /\ net = NoNet
    /\ loss = Undefined
    /\ trainer = NoTrainer
    /\ num_epochs = 0
    /\ epoch = 0
    /\ l = NoLoss
    /\ grad = NoGrad
    /\ w = Undefined
    /\ b = Undefined
    /\ printed = <<>>
    /\ calls = [forward |-> 0, backward |-> 0, step |-> 0]
    /\ stages = <<>>
    /\ delivered = <<>>

\* Cell 1: features, labels = d2l.synthetic_data(true_w, true_b, 1000)
Cell1_SyntheticData ==
    /\ nb_pc = "49"
    /\ features' = SyntheticData(lit.n).features
    /\ labels' = SyntheticData(lit.n).labels
    /\ Goto(After("49"))
    /\ UNCHANGED <<lit, batch_size, data_iter, it, X, y, net, loss, trainer,
                   num_epochs, epoch, l, grad, w, b, printed, calls, stages,
                   delivered>>

\* Cell 2: batch_size = 10
Cell2_BatchSize ==
    /\ nb_pc = "89"
    /\ batch_size' = lit.batch
    /\ Goto(After("89"))
    /\ UNCHANGED <<lit, features, labels, data_iter, it, X, y, net, loss,
                   trainer, num_epochs, epoch, l, grad, w, b, printed, calls,
                   stages, delivered>>

\* Cell 2: data_iter = load_array((features, labels), batch_size)
Cell2_LoadArray ==
    /\ nb_pc = "90"
    /\ data_iter' = LoadArray(<<features, labels>>, batch_size, TRUE)
    /\ stages' = Stage("load_array")
    /\ Goto(After("90"))
    /\ UNCHANGED <<lit, features, labels, batch_size, it, X, y, net, loss,
                   trainer, num_epochs, epoch, l, grad, w, b, printed, calls,
                   delivered>>

\* for X, y in data_iter: the loop is entered and iter(data_iter) is called.
ForEnter(stmt) ==
    /\ nb_pc = stmt
    /\ \E order \in SamplerOrders(data_iter) :
          it' = Iter(data_iter, it, order)
    /\ delivered' = <<>>
    /\ Goto(stmt \o "n")
    /\ UNCHANGED <<lit, features, labels, batch_size, data_iter, X, y, net,
                   loss, trainer, num_epochs, epoch, l, grad, w, b, printed,
                   calls, stages>>

\* for X, y in data_iter: the next mini-batch is bound to X, y and the body is
\* run, or the iterator is exhausted and the loop is left.
ForNext(stmt, body, exit) ==
    /\ nb_pc = stmt \o "n"
    /\ IF HasNext(data_iter, it)
       THEN LET idx == NextIndices(data_iter, it)
            IN /\ X' = Batchify(data_iter, idx, 1)
               /\ y' = Batchify(data_iter, idx, 2)
               /\ it' = [it EXCEPT !.pos = it.pos + Len(idx)]
               /\ delivered' = delivered \o [j \in 1..Len(idx) |-> data_iter.dataset[idx[j]]]
               /\ Goto(body)
       ELSE /\ Goto(exit)
            /\ UNCHANGED <<X, y, it, delivered>>
    /\ UNCHANGED <<lit, features, labels, batch_size, data_iter, net, loss,
                   trainer, num_epochs, epoch, l, grad, w, b, printed, calls,
                   stages>>

\* Cell 3: for X, y in data_iter: print(X, y); break
Cell3_For == ForEnter("134")

Cell3_Next == ForNext("134", "135", After("134"))

Cell3_Print ==
    /\ nb_pc = "135"
    /\ printed' = Append(printed, <<"X, y", Len(X)>>)
    /\ Goto("136")
    /\ UNCHANGED <<lit, features, labels, batch_size, data_iter, it, X, y, net,
                   loss, trainer, num_epochs, epoch, l, grad, w, b, calls,
                   stages, delivered>>

Cell3_Break ==
    /\ nb_pc = "136"
    /\ Goto(After("134"))
    /\ UNCHANGED <<lit, features, labels, batch_size, data_iter, it, X, y, net,
                   loss, trainer, num_epochs, epoch, l, grad, w, b, printed,
                   calls, stages, delivered>>

\* Cell 4: net = nn.Sequential()
Cell4_Sequential ==
    /\ nb_pc = "174"
    /\ net' = Sequential
    /\ stages' = Stage("Sequential")
    /\ Goto(After("174"))
    /\ UNCHANGED <<lit, features, labels, batch_size, data_iter, it, X, y, loss,
                   trainer, num_epochs, epoch, l, grad, w, b, printed, calls,
                   delivered>>

\* Cell 5: net.add(nn.Dense(1))
Cell5_AddDense ==
    /\ nb_pc = "203"
    /\ net' = Add(net)
    /\ stages' = Stage("add Dense")
    /\ Goto(After("203"))
    /\ UNCHANGED <<lit, features, labels, batch_size, data_iter, it, X, y, loss,
                   trainer, num_epochs, epoch, l, grad, w, b, printed, calls,
                   delivered>>

\* Cell 6: net.initialize(init.Normal(sigma=0.01))
Cell6_Initialize ==
    /\ nb_pc = "250"
    /\ net' = Initialize(net)
    /\ stages' = Stage("initialize")
    /\ Goto(After("250"))
    /\ UNCHANGED <<lit, features, labels, batch_size, data_iter, it, X, y, loss,
                   trainer, num_epochs, epoch, l, grad, w, b, printed, calls,
                   delivered>>

\* Cell 7: loss = gloss.L2Loss()
Cell7_L2Loss ==
    /\ nb_pc = "291"
    /\ loss' = "L2Loss"
    /\ stages' = Stage("L2Loss")
    /\ Goto(After("291"))
    /\ UNCHANGED <<lit, features, labels, batch_size, data_iter, it, X, y, net,
                   trainer, num_epochs, epoch, l, grad, w, b, printed, calls,
                   delivered>>

\* Cell 8: trainer = gluon.Trainer(net.collect_params(), 'sgd', ...)
Cell8_Trainer ==
    /\ nb_pc = "324"
    /\ trainer' = [optimizer |-> "sgd", params |-> net.layers,
                   rescale |-> 0, on |-> <<>>]
    /\ stages' = Stage("Trainer")
    /\ Goto(After("324"))
    /\ UNCHANGED <<lit, features, labels, batch_size, data_iter, it, X, y, net,
                   loss, num_epochs, epoch, l, grad, w, b, printed, calls,
                   delivered>>

\* Cell 9: num_epochs = 3
Cell9_NumEpochs ==
    /\ nb_pc = "388"
    /\ num_epochs' = lit.epochs
    /\ Goto(After("388"))
    /\ UNCHANGED <<lit, features, labels, batch_size, data_iter, it, X, y, net,
                   loss, trainer, epoch, l, grad, w, b, printed, calls, stages,
                   delivered>>

\* Cell 9: for epoch in range(1, num_epochs + 1): the values the loop
\* variable takes, and the loop's step: the next value, or the loop is left.
EpochsOneLess(n) == Range(1, n)

Epochs(n) == Range(1, n + 1)

Cell9_ForEpoch ==
    /\ nb_pc = "389"
    /\ LET r == Epochs(num_epochs)
           taken == Cardinality({i \in 1..Len(r) : r[i] <= epoch})
       IN IF taken < Len(r)
          THEN /\ epoch' = r[taken + 1]
               /\ Goto("390")
          ELSE /\ Goto(After("389"))
               /\ UNCHANGED epoch
    /\ UNCHANGED <<lit, features, labels, batch_size, data_iter, it, X, y, net,
                   loss, trainer, num_epochs, l, grad, w, b, printed, calls,
                   stages, delivered>>

\* Cell 9: for X, y in data_iter:
Cell9_For == ForEnter("390")

Cell9_Next == ForNext("390", LoopBody[1], "395")

\* Cell 9: with autograd.record(): l = loss(net(X), y)
Cell9_Forward ==
    /\ nb_pc = "392"
    /\ IF CanForward(net) /\ loss = "L2Loss"
       THEN /\ net' = Forward(net)
            /\ l' = [of |-> "batch", on |-> X, recorded |-> TRUE]
            /\ calls' = [calls EXCEPT !.forward = @ + 1]
            /\ Goto(AfterInBody("392"))
       ELSE /\ Raise
            /\ UNCHANGED <<net, l, calls>>
    /\ UNCHANGED <<lit, features, labels, batch_size, data_iter, it, X, y, loss,
                   trainer, num_epochs, epoch, grad, w, b, printed, stages,
                   delivered>>

\* Cell 9: l.backward(): the gradients of the recorded loss.
Cell9_Backward ==
    /\ nb_pc = "393"
    /\ IF l.recorded
       THEN /\ grad' = [state |-> "fresh", on |-> l.on]
            /\ calls' = [calls EXCEPT !.backward = @ + 1]
            /\ Goto(AfterInBody("393"))
       ELSE /\ Raise
            /\ UNCHANGED <<grad, calls>>
    /\ UNCHANGED <<lit, features, labels, batch_size, data_iter, it, X, y, net,
                   loss, trainer, num_epochs, epoch, l, w, b, printed, stages,
                   delivered>>

\* Cell 9: trainer.step(batch_size): the parameters are moved along the
\* gradients divided by batch_size.  The trainer refuses parameters that are
\* not initialized and gradients that no backward pass has refreshed.
Cell9_Step ==
    /\ nb_pc = "394"
    /\ IF trainer.optimizer = "sgd" /\ CanAccessParams(net) /\ grad.state = "fresh"
       THEN /\ trainer' = [trainer EXCEPT !.rescale = batch_size,
                                          !.on = grad.on]
            /\ grad' = [grad EXCEPT !.state = "stale"]
            /\ calls' = [calls EXCEPT !.step = @ + 1]
            /\ stages' = Stage("step")
            /\ Goto(AfterInBody("394"))
       ELSE /\ Raise
            /\ UNCHANGED <<trainer, grad, calls, stages>>
    /\ UNCHANGED <<lit, features, labels, batch_size, data_iter, it, X, y, net,
                   loss, num_epochs, epoch, l, w, b, printed, delivered>>

\* Cell 9: l = loss(net(features), labels)
Cell9_EpochLoss ==
    /\ nb_pc = "395"
    /\ IF CanForward(net) /\ loss = "L2Loss"
       THEN /\ net' = Forward(net)
            /\ l' = [of |-> "all", on |-> features, recorded |-> FALSE]
            /\ Goto("396")
       ELSE /\ Raise
            /\ UNCHANGED <<net, l>>
    /\ UNCHANGED <<lit, features, labels, batch_size, data_iter, it, X, y, loss,
                   trainer, num_epochs, epoch, grad, w, b, printed, calls,
                   stages, delivered>>

\* Cell 9: print('epoch %d, loss: %f' % (epoch, l.mean().asnumpy()))
Cell9_Print ==
    /\ nb_pc = "396"
    /\ printed' = Append(printed, <<"epoch", epoch>>)
    /\ Goto("389")
    /\ UNCHANGED <<lit, features, labels, batch_size, data_iter, it, X, y, net,
                   loss, trainer, num_epochs, epoch, l, grad, w, b, calls,
                   stages, delivered>>

\* Cell 10: w = net[0].weight.data(), and the print of the next line
Cell10_Weight ==
    /\ nb_pc = "431"
    /\ IF net.layers >= 1 /\ CanAccessParams(net)
       THEN /\ w' = "weight"
            /\ printed' = Append(printed, <<"Error in estimating w">>)
            /\ stages' = Stage("inspect")
            /\ Goto(After("431"))
       ELSE /\ Raise
            /\ UNCHANGED <<w, printed, stages>>
    /\ UNCHANGED <<lit, features, labels, batch_size, data_iter, it, X, y, net,
                   loss, trainer, num_epochs, epoch, l, grad, b, calls,
                   delivered>>

\* Cell 10: b = net[0].bias.data(), and the print of the next line
Cell10_Bias ==
    /\ nb_pc = "433"
    /\ IF net.layers >= 1 /\ CanAccessParams(net)
       THEN /\ b' = "bias"
            /\ printed' = Append(printed, <<"Error in estimating b">>)
            /\ stages' = Stage("inspect")
            /\ Goto(After("433"))
       ELSE /\ Raise
            /\ UNCHANGED <<b, printed, stages>>
    /\ UNCHANGED <<lit, features, labels, batch_size, data_iter, it, X, y, net,
                   loss, trainer, num_epochs, epoch, l, grad, w, calls,
                   delivered>>

NextNotebook ==
    \/ Cell1_SyntheticData
    \/ Cell2_BatchSize
    \/ Cell2_LoadArray
    \/ Cell3_For
    \/ Cell3_Next
    \/ Cell3_Print
    \/ Cell3_Break
    \/ Cell4_Sequential
    \/ Cell5_AddDense
    \/ Cell6_Initialize
    \/ Cell7_L2Loss
    \/ Cell8_Trainer
    \/ Cell9_NumEpochs
    \/ Cell9_ForEpoch
    \/ Cell9_For
    \/ Cell9_Next
    \/ Cell9_Forward
    \/ Cell9_Backward
    \/ Cell9_Step
    \/ Cell9_EpochLoss
    \/ Cell9_Print
    \/ Cell10_Weight
    \/ Cell10_Bias

\* The script has not been started while the notebook runs.
ScriptNotStarted ==
    /\ sh_pc = 2
    /\ clock = 0
    /\ cwd = <<"d">>
    /\ other_dir = FALSE
    /\ temp_date = Unset
    /\ temp_path = Unset
    /\ status = 0
    /\ exit_code = Running
    /\ repo = [commits |-> InitCommits,
               branches |-> [br \in Branches |-> IF br = "master" THEN 1 ELSE NoCommit],
               head |-> "master", staged |-> FALSE, dirty |-> FALSE,
               conflict |-> FALSE, origin |-> 1]
    /\ issued = <<>>
    /\ outcome = [ln \in {} |-> ""]
    /\ start = repo

\* The script, run while the notebook is not.
InitScriptAlone == InitScript /\ InitNotebookAt({Literals})

SpecScript == InitScriptAlone /\ [][NextScript]_vars

\* The notebook, run top to bottom.
InitNotebook == InitNotebookAt({Literals}) /\ ScriptNotStarted

SpecNotebook == InitNotebook /\ [][NextNotebook]_vars

\* The kernel runs the next statement as soon as the last one has ended.
FairSpecNotebook == SpecNotebook /\ WF_vars(NextNotebook)

\* The notebook at its own size and with scaled-down literals, for which
\* every order of the examples is drawn.
InitAllSizes == InitNotebookAt({Literals} \cup ScaledLiterals) /\ ScriptNotStarted

SpecAllSizes == InitAllSizes /\ [][NextNotebook]_vars

--------------------------------------------------------------------------
(***************************************************************************)
(* Properties of new_manual_update.sh                                      *)
(***************************************************************************)

\* The git commands of the script, in the order of its lines.
GitSequence ==
    << <<"branch", "tmp">>,
       <<"checkout", "tmp">>,
       <<"add", ".", "--all">>,
       <<"commit", "-m", <<"code on", temp_date>>>>,
       <<"checkout", "master">>,
       <<"merge", "tmp">>,
       <<"push", "origin", "master">>,
       <<"branch", "-d", "tmp">> >>

GitLines == {8, 9, 10, 13, 14, 15, 16, 17}
LinesBefore(line) == {ScriptLines[i] : i \in 1..Len(ScriptLines)} \cap 2..(line - 1)
GitRan(line) == line \in DOMAIN outcome /\ outcome[line] \in {"ok", "git failed"}

\* C1: at every moment of every run the git commands issued so far are an
\* initial part of the fixed sequence branch tmp, checkout tmp, add . --all,
\* commit -m "code on <date>", checkout master, merge tmp, push origin master,
\* branch -d tmp: in that order, none twice, none out of place; it is the
\* part of the lines run so far, or nothing when cd fails on every line.
C1_GitOrder ==
    /\ \E k \in 0..Len(GitSequence) : issued = SubSeq(GitSequence, 1, k)
    /\ issued # <<>> =>
          Len(issued) = Cardinality(LinesBefore(sh_pc) \cap GitLines)

\* A finished run in which all eight commands were issued.
C1_Witness == sh_pc = Done /\ Len(issued) = 8

\* C2: no outcome of a line stops the script.  Whatever the statuses, the
\* lines run so far are all the lines before the current one, the script
\* ends only after line 17, a next line can always be run, once git has run
\* and failed on a line git is run on every later line (push origin master
\* and branch -d tmp after a failed merge), and the script keeps no record
\* of a failure: its exit status is the status of line 17 alone.
C2_FailureNeverStops ==
    /\ DOMAIN outcome = LinesBefore(sh_pc)
    /\ sh_pc = Done \/ ENABLED ScriptStep
    /\ \A ln \in DOMAIN outcome : \A m \in DOMAIN outcome :
          (outcome[ln] = "git failed" /\ m > ln /\ m \in GitLines) => GitRan(m)
    /\ (sh_pc = Done /\ outcome[15] = "git failed") =>
          /\ issued[7] = <<"push", "origin", "master">>
          /\ issued[8] = <<"branch", "-d", "tmp">>
    /\ exit_code = IF sh_pc = Done
                   THEN (IF outcome[17] = "ok" THEN 0 ELSE 1)
                   ELSE Running

\* A finished run whose merge conflicted, and whose push was still made and
\* succeeded.
C2_Witness ==
    /\ sh_pc = Done
    /\ repo.conflict
    /\ outcome[15] = "git failed"
    /\ outcome[16] = "ok"
    /\ outcome[17] = "git failed"

\* The start C9 is about: master checked out, at least one commit on master,
\* no branch tmp.
C9_Start ==
    /\ start.head = "master"
    /\ start.branches["master"] # NoCommit
    /\ start.branches["tmp"] = NoCommit

\* Every line ended with status 0, git acting on the repository the script
\* was started in.
C9_EveryStepSucceeded ==
    /\ sh_pc = Done
    /\ cwd = temp_path
    /\ \A ln \in DOMAIN outcome : outcome[ln] = "ok"

\* Between the creation of tmp (line 8 succeeded) and the merge (line 15 not
\* yet run) master is where it was at the start.
C9_MasterDoesNotMove ==
    (8 \in DOMAIN outcome /\ outcome[8] = "ok" /\ cwd = temp_path /\ sh_pc <= 15)
        => repo.branches["master"] = start.branches["master"]

\* The merge never conflicts: when line 15 is reached tmp and HEAD have not
\* diverged, and no conflict is ever left in the repository.
C9_MergeCannotConflict ==
    /\ ~repo.conflict
    /\ sh_pc = 15 => MergeKind(repo, "tmp") # "true"

\* The final state of a run in which every step succeeded.
C9_FinalState ==
    C9_EveryStepSucceeded =>
        LET tip == repo.branches["master"]
        IN /\ repo.head = "master"
           /\ tip = Len(start.commits) + 1
           /\ repo.commits[tip].msg = <<"code on", temp_date>>
           /\ repo.commits[tip].parents = {start.branches["master"]}
           /\ repo.origin = tip
           /\ repo.branches["tmp"] = NoCommit

\* C9, as claimed: from a start with master checked out, a commit on master
\* and no branch tmp, master does not move between the creation of tmp and
\* the merge, the merge cannot conflict, and when every step succeeds the
\* script ends on master, master's tip being the commit made on tmp with the
\* message "code on <date of line 2>", origin's master equal to it, and tmp
\* deleted.
C9_AsClaimed ==
    C9_Start =>
        /\ C9_MasterDoesNotMove
        /\ C9_MergeCannotConflict
        /\ C9_FinalState

\* The parts of C9 that hold of the script whatever fails.
C9_PartsThatHold ==
    C9_Start => (C9_MergeCannotConflict /\ C9_FinalState)

\* A run from C9's start in which every step succeeded.
C9_SucceededRun == C9_Start /\ C9_EveryStepSucceeded

--------------------------------------------------------------------------
(***************************************************************************)
(* Properties of linear-regression-gluon.ipynb                             *)
(***************************************************************************)

\* The epoch numbers printed by cell 9, in the order printed.
EpochsPrinted ==
    LET idx == {i \in 1..Len(printed) : printed[i][1] = "epoch"}
    IN [k \in 1..Cardinality(idx) |->
           printed[CHOOSE i \in idx : Cardinality({j \in idx : j <= i}) = k][2]]

\* C3: the training loop has a fixed iteration count and always terminates:
\* the run reaches the end of the notebook, having called trainer.step
\* exactly 300 times (3 epochs of 100 mini-batches, each epoch a pass over
\* all 1000 examples) and printed the epoch loss exactly 3 times, for the
\* epochs 1, 2, 3 in that order; on the way the counts never exceed these.
C3_FixedIterationCount ==
    /\ [](calls.step <= 300 /\ Len(EpochsPrinted) <= 3)
    /\ [](nb_pc = "395" => (calls.step = 100 * epoch /\ Len(delivered) = 1000))
    /\ <>[](/\ nb_pc = "end"
            /\ calls.step = 300
            /\ EpochsPrinted = <<1, 2, 3>>)

\* The end of the notebook, after 300 steps.
C3_Witness == nb_pc = "end" /\ calls.step = 300 /\ epoch = 3

\* C4: for every mini-batch the loop makes one forward pass with the loss,
\* then one backward pass, then one update, in that order: the three counts
\* move in step, an update applies the gradients of a backward pass made on
\* the mini-batch at hand, no statement raises, and the loss of the epoch is
\* computed and printed only when the iterator is exhausted and every
\* mini-batch of the epoch has been through all three.
C4_ForwardBackwardStep ==
    /\ nb_pc # "error"
    /\ calls.forward = calls.step + (IF nb_pc \in {"393", "394"} THEN 1 ELSE 0)
    /\ calls.backward = calls.step + (IF nb_pc = "394" THEN 1 ELSE 0)
    /\ nb_pc = "393" => (l.of = "batch" /\ l.recorded /\ l.on = X)
    /\ nb_pc = "394" => (grad.state = "fresh" /\ grad.on = X)
    /\ (nb_pc = "390n" /\ calls.step > 0) => trainer.on = X
    /\ nb_pc \in {"395", "396"} =>
          /\ ~HasNext(data_iter, it)
          /\ calls.step * batch_size = epoch * Len(features)
    /\ \A i \in 1..Len(EpochsPrinted) :
          /\ EpochsPrinted[i] <= epoch
          /\ EpochsPrinted[i] = epoch => nb_pc \in {"389", "431", "433", "end"}

\* An update has just been made in the second epoch.
C4_Witness == nb_pc = "390n" /\ epoch = 2 /\ calls.step = 101

\* The stages of the notebook, in the order of its cells.
StageOrder ==
    <<"load_array", "Sequential", "add Dense", "initialize", "L2Loss",
      "Trainer", "step", "inspect">>

\* C5: the library is called in the fixed order load_array, Sequential, add
\* Dense, initialize, L2Loss, Trainer, trainer.step, parameter inspection:
\* the stages reached are always an initial part of that list, all of it at
\* the end, and the trainer is stepped only on a net that has its layer and
\* on which initialize has been called.
C5_FixedCallOrder ==
    /\ \E k \in 0..Len(StageOrder) : stages = SubSeq(StageOrder, 1, k)
    /\ nb_pc = "end" => stages = StageOrder
    /\ calls.step > 0 => (net.layers = 1 /\ net.params \in {"deferred", "ready"})
    /\ nb_pc = "394" => (net.layers = 1 /\ net.params \in {"deferred", "ready"})

\* The end of the notebook, every stage passed.
C5_Witness == nb_pc = "end" /\ Len(stages) = 8 /\ w = "weight" /\ b = "bias"

\* C6: the initialization of the parameters is deferred to the first forward
\* pass (they are ready exactly when net has been given data), and no
\* parameter is read or updated before it: trainer.step and the reads of
\* weight and bias happen only with the parameters ready, after a first
\* net(X), and none of them raises.
C6_NoAccessBeforeForward ==
    /\ nb_pc # "error"
    /\ net.params = "ready" <=> calls.forward > 0
    /\ (calls.step > 0 \/ w # Undefined \/ b # Undefined
          \/ nb_pc \in {"394", "431", "433"}) =>
          (calls.forward > 0 /\ CanAccessParams(net))

\* The first forward pass has been made and no parameter touched yet.
C6_Witness ==
    /\ nb_pc = "393"
    /\ calls.forward = 1
    /\ calls.step = 0
    /\ net.params = "ready"

\* C7: the loader shuffles (shuffle = is_train, True by default), and every
\* epoch is a complete pass: whatever order the sampler drew, no example is
\* delivered twice in a pass, every row comes with its own label, and when
\* the inner loop ends every example has been delivered, in each epoch, the
\* first one after the one-batch look of cell 3 included.
C7_CompletePass ==
    /\ data_iter # NoLoader => data_iter.shuffle
    /\ \A i \in 1..Len(delivered) :
          /\ delivered[i][1] = delivered[i][2]
          /\ delivered[i][1] \in 1..lit.n
    /\ Cardinality({delivered[i][1] : i \in 1..Len(delivered)}) = Len(delivered)
    /\ X = y
    /\ nb_pc = "395" => Len(delivered) = lit.n
    /\ nb_pc \in {"392", "393", "394"} =>
          /\ X = SubSeq(it.order, it.pos - Len(X) + 1, it.pos)
          /\ Len(delivered) = it.pos

\* The end of a second epoch over three examples in mini-batches of two,
\* drawn in another order than 1, 2, 3.
C7_Witness ==
    /\ nb_pc = "395"
    /\ epoch = 2
    /\ lit.n = 3
    /\ lit.batch = 2
    /\ it.order = <<3, 1, 2>>

\* C8: batch_size is 10 from the construction of the loader on, every
\* mini-batch holds exactly batch_size examples (1000 = 100 * 10: no short
\* last one), and the batch size given to trainer.step is the number of
\* examples of the mini-batch whose gradients it applies.
C8_StepSizeIsBatchSize ==
    /\ batch_size = (IF nb_pc \in {"49", "89"} THEN 0 ELSE 10)
    /\ data_iter # NoLoader => data_iter.batch_size = 10
    /\ nb_pc \in {"135", "136", "392", "393", "394"} => Len(X) = batch_size
    /\ nb_pc = "394" => Len(grad.on) = batch_size
    /\ calls.step > 0 => (trainer.rescale = 10 /\ Len(trainer.on) = trainer.rescale)

\* The last update of the last epoch has just been made.
C8_Witness ==
    /\ nb_pc = "390n"
    /\ calls.step = 300
    /\ it.pos = 1000
    /\ trainer.rescale = 10

====
